---- MODULE Spec2Model ----
(***************************************************************************)
(* A model of the Transformer encoder of model.py, the table builders of   *)
(* utils.py and the evaluation loop of train_BERT.py.                      *)
(*                                                                         *)
(* Tensors are modelled by their shapes (a sequence of dimension sizes);   *)
(* an operation whose shapes do not fit raises, which is the tensor ERR.   *)
(* Where a claim is about values (attention weights, the positional table, *)
(* the mask, the evaluation weights) the values are modelled too.          *)
(***************************************************************************)
EXTENDS Integers, Sequences, FiniteSets

VARIABLES
    \* Encoder (model.py)
    cfg,      \* the constructor's arguments
    enc,      \* the constructed Encoder's fields
    x,        \* the shape of forward's input
    z,        \* forward's local z: shape and the operations applied to x so far
    i,        \* forward's loop index
    pc,       \* where the Encoder's life is
    \* AttentionHead.forward on values (model.py)
    q, k, qk, attn, apc,
    \* getPositionEncoding (utils.py)
    pe_seq, pe_d, P, pe_k, pe_i, pe_pc,
    \* getMask (utils.py)
    m_seq, mask, m_i, m_j, m_pc,
    \* evaluate / get_batch (train_BERT.py)
    ev_len, ev_bsz, ev_sq, ev_i, chunks, total_loss, ev_pc

encVars  == <<cfg, enc, x, z, i, pc>>
attVars  == <<q, k, qk, attn, apc>>
peVars   == <<pe_seq, pe_d, P, pe_k, pe_i, pe_pc>>
maskVars == <<m_seq, mask, m_i, m_j, m_pc>>
evVars   == <<ev_len, ev_bsz, ev_sq, ev_i, chunks, total_loss, ev_pc>>
vars     == <<encVars, attVars, peVars, maskVars, evVars>>

----------------------------------------------------------------------------
(* Bounds of the model *)

MaxDim    == 3   \* model widths V range over -1..MaxDim
MaxHeads  == 2   \* num_heads ranges over -1..MaxHeads
MaxBlocks == 2   \* num_encoder ranges over 0..MaxBlocks
MaxLen    == 3   \* max_len ranges over -1..MaxLen, sequence lengths over 0..MaxLen+1
MaxLayers == 3   \* FFN num_layers ranges over 0..MaxLayers
MaxBatch  == 2   \* batch sizes range over 1..MaxBatch

(* Program constants *)

HiddenSize == 512   \* Encoder.__init__'s default hidden_size

Max(a, b) == IF a >= b THEN a ELSE b
Min(a, b) == IF a <= b THEN a ELSE b

----------------------------------------------------------------------------
(* Shapes and the torch operations the source calls, on shapes.            *)

ERR  == [ok |-> FALSE, shape |-> <<>>]
T(s) == [ok |-> TRUE, shape |-> s]

Rank(t) == Len(t.shape)

\* Two dimension sizes broadcast when they are equal or one of them is 1.
BroadcastOk(a, b) == a = b \/ a = 1 \/ b = 1
BroadcastDim(a, b) == IF a = 1 THEN b ELSE a

\* s padded with 1s on the left to rank n.
PadLeft(s, n) == [j \in 1..n |-> IF j <= n - Len(s) THEN 1 ELSE s[j - (n - Len(s))]]

BroadcastShapes(s, t) ==
    LET n  == Max(Len(s), Len(t))
        ps == PadLeft(s, n)
        pt == PadLeft(t, n)
    IN  IF \A j \in 1..n : BroadcastOk(ps[j], pt[j])
        THEN T([j \in 1..n |-> BroadcastDim(ps[j], pt[j])])
        ELSE ERR

\* a + b, elementwise with broadcasting.
Add(a, b) == IF a.ok /\ b.ok THEN BroadcastShapes(a.shape, b.shape) ELSE ERR

\* nn.Linear(inF, outF) applied to a: the last dimension must be inF.
LinearFwd(a, inF, outF) ==
    IF a.ok /\ Rank(a) >= 1 /\ a.shape[Rank(a)] = inF
    THEN T([a.shape EXCEPT ![Rank(a)] = outF])
    ELSE ERR

\* a.transpose(1, 0): dimensions 0 and 1 swapped (1-based: 1 and 2).
Transpose10(a) ==
    IF a.ok /\ Rank(a) >= 2
    THEN T([a.shape EXCEPT ![1] = a.shape[2], ![2] = a.shape[1]])
    ELSE ERR

\* torch.matmul(a, b) for operands of rank >= 2: the matrix dimensions are
\* the last two, the leading ones are batch dimensions and broadcast.
Matmul(a, b) ==
    IF ~(a.ok /\ b.ok /\ Rank(a) >= 2 /\ Rank(b) >= 2) THEN ERR
    ELSE LET ra == Rank(a)
             rb == Rank(b)
             batch == BroadcastShapes(SubSeq(a.shape, 1, ra - 2), SubSeq(b.shape, 1, rb - 2))
         IN  IF a.shape[ra] = b.shape[rb - 1] /\ batch.ok
             THEN T(batch.shape \o <<a.shape[ra - 1], b.shape[rb]>>)
             ELSE ERR

\* F.softmax(a) with no dim: torch picks dim 0 for rank 0, 1 and 3, else dim 1.
SoftmaxDim(rank) == IF rank \in {0, 1, 3} THEN 0 ELSE 1

\* The shape of softmax(a)/sqrt(k.shape[1]): a's shape; k.shape[1] needs rank >= 2.
SoftmaxScaled(a, kk) == IF a.ok /\ kk.ok /\ Rank(kk) >= 2 THEN a ELSE ERR

RECURSIVE SumDim(_, _)
SumDim(ts, d) == IF ts = <<>> THEN 0 ELSE ts[1].shape[d] + SumDim(Tail(ts), d)

\* torch.cat(ts, dim): a non-empty list of tensors that agree on all but dim.
Cat(ts, dim) ==
    IF Len(ts) = 0 THEN ERR
    ELSE IF \E j \in 1..Len(ts) : ~ts[j].ok \/ Rank(ts[j]) <= dim THEN ERR
    ELSE IF \E j \in 1..Len(ts) :
               \/ Rank(ts[j]) # Rank(ts[1])
               \/ \E e \in 1..Rank(ts[1]) : e # dim + 1 /\ ts[j].shape[e] # ts[1].shape[e]
         THEN ERR
    ELSE T([ts[1].shape EXCEPT ![dim + 1] = SumDim(ts, dim + 1)])

\* nn.LayerNorm(n) applied to a: the last dimension must be n.
LayerNormFwd(a, n) == IF a.ok /\ Rank(a) >= 1 /\ a.shape[Rank(a)] = n THEN a ELSE ERR

----------------------------------------------------------------------------
(* Construction.  nn.Linear, nn.LayerNorm and torch.zeros raise on a        *)
(* negative size and accept a size of 0; range(n) is empty for n <= 0.      *)

SizeOk(n) == n >= 0

\* FFN.__init__: the (in, out) sizes of the Linear layers it appends.
FFNLayers(input_size, hidden_size, output_size, num_layers) ==
    <<<<input_size, hidden_size>>>>
    \o [j \in 1..Max(num_layers - 2, 0) |-> <<hidden_size, hidden_size>>]
    \o <<<<hidden_size, output_size>>>>

FFNInitOk(layers) == \A j \in 1..Len(layers) : SizeOk(layers[j][1]) /\ SizeOk(layers[j][2])

\* MultiHeadAttention.__init__: the merge projection and the list of heads.
MHAInit(V, num_heads) ==
    [linear |-> <<num_heads * V, V>>, attention_heads |-> Max(num_heads, 0), d |-> V]

MHAInitOk(V, num_heads) == SizeOk(num_heads * V) /\ SizeOk(V)

\* EncoderBlock.__init__
EncoderBlockInit(V, num_heads, hidden_size, num_layers) ==
    [ffn |-> FFNLayers(V, hidden_size, V, num_layers),
     multi_head_attention |-> MHAInit(V, num_heads),
     layer_norm |-> V]

EncoderBlockInitOk(V, num_heads, hidden_size, num_layers) ==
    /\ FFNInitOk(FFNLayers(V, hidden_size, V, num_layers))
    /\ MHAInitOk(V, num_heads)
    /\ SizeOk(V)

\* Encoder.__init__: num_encoder blocks, then the positional table of shape
\* [max_len, V] from getPositionEncoding(seq_len=max_len, d=V).
EncoderInit(c) ==
    [num_encoder |-> c.num_encoder,
     multiencoder |-> [j \in 1..Max(c.num_encoder, 0) |->
                          EncoderBlockInit(c.V, c.num_heads, HiddenSize, c.num_layers)],
     pos_encoding |-> T(<<c.max_len, c.V>>)]

EncoderInitOk(c) ==
    /\ (c.num_encoder > 0 =>
            EncoderBlockInitOk(c.V, c.num_heads, HiddenSize, c.num_layers))
    /\ SizeOk(c.max_len) /\ SizeOk(c.V)

----------------------------------------------------------------------------
(* Forward passes, on shapes.                                               *)

RECURSIVE FFNForward(_, _)
\* FFN.forward: the Linear layers in order (ReLU and Dropout keep the shape).
FFNForward(a, layers) ==
    IF layers = <<>> THEN a
    ELSE FFNForward(LinearFwd(a, layers[1][1], layers[1][2]), Tail(layers))

\* AttentionHead.forward
AttentionHeadForward(a, d) ==
    LET qq == LinearFwd(a, d, d)
        kk == LinearFwd(a, d, d)
        vv == LinearFwd(a, d, d)
        k_transpose   == Transpose10(kk)
        q_k_transpose == Matmul(qq, k_transpose)
        q_k_softmax   == SoftmaxScaled(q_k_transpose, kk)
    IN  Matmul(q_k_softmax, vv)

\* MultiHeadAttention.forward
MultiHeadForward(a, mha) ==
    LET zs  == [h \in 1..mha.attention_heads |-> AttentionHeadForward(a, mha.d)]
        cat == Cat(zs, 1)
    IN  LinearFwd(cat, mha.linear[1], mha.linear[2])

\* EncoderBlock.forward
EncoderBlockForward(a, blk) ==
    LET z0 == MultiHeadForward(a, blk.multi_head_attention)
        z1 == LayerNormFwd(Add(a, z0), blk.layer_norm)
        z2 == FFNForward(z1, blk.ffn)
    IN  LayerNormFwd(Add(z1, z2), blk.layer_norm)

\* The operations applied to forward's input, in order.
PosOp      == [op |-> "pos_encoding", idx |-> 0]
BlockOp(j) == [op |-> "block", idx |-> j]

\* Line 88: z = x + self.pos_encoding
AddPos(a, e) ==
    LET r == Add(a, e.pos_encoding)
    IN  [ok |-> r.ok, shape |-> r.shape, hist |-> Append(a.hist, PosOp)]

\* A loop body that adds the positional encoding again before each block
ApplyBlockReinject(a, j, e) ==
    LET p == AddPos(a, e)
        r == EncoderBlockForward([ok |-> p.ok, shape |-> p.shape], e.multiencoder[j + 1])
    IN  [ok |-> r.ok, shape |-> r.shape, hist |-> Append(p.hist, BlockOp(j))]

\* Line 90: z = self.multiencoder[i](z), i counted from 0
ApplyBlock(a, j, e) ==
    LET r == EncoderBlockForward([ok |-> a.ok, shape |-> a.shape], e.multiencoder[j + 1])
    IN  [ok |-> r.ok, shape |-> r.shape, hist |-> Append(a.hist, BlockOp(j))]

----------------------------------------------------------------------------
(* The Encoder's life: construction, then one forward call.                 *)

Configs ==
    [V : -1..MaxDim, num_heads : -1..MaxHeads, num_encoder : 0..MaxBlocks,
     max_len : -1..MaxLen, num_layers : 0..MaxLayers]

\* The end-to-end scenario: a 2-block, 2-head encoder of width 16 whose table
\* has 8 rows, fed a batch of 2 sequences of length 8.
ExampleCfg ==
    [V |-> 16, num_heads |-> 2, num_encoder |-> 2, max_len |-> 8, num_layers |-> 4]
ExampleInput == <<2, 8, 16>>

\* The inputs of a forward call: unbatched [seq_len, V] and batched
\* [batch, seq_len, V], of the encoder's width.
Inputs(c) ==
    IF c = ExampleCfg THEN {ExampleInput, <<8, 16>>}
    ELSE {<<s, c.V>> : s \in 0..MaxLen + 1}
         \cup {<<b, s, c.V>> : b \in 1..MaxBatch, s \in 0..MaxLen + 1}

NoTensor == [ok |-> TRUE, shape |-> <<>>, hist |-> <<>>]
NoEncoder == [num_encoder |-> 0, multiencoder |-> <<>>, pos_encoding |-> ERR]

EncIdle ==
    /\ cfg = ExampleCfg /\ enc = NoEncoder /\ x = <<>> /\ z = NoTensor /\ i = 0
    /\ pc = "idle"

EncInit ==
    /\ cfg \in Configs \cup {ExampleCfg}
    /\ enc = NoEncoder /\ x = <<>> /\ z = NoTensor /\ i = 0
    /\ pc = "new"

\* Encoder.__init__
Construct ==
    /\ pc = "new"
    /\ IF EncoderInitOk(cfg)
       THEN enc' = EncoderInit(cfg) /\ pc' = "ready"
       ELSE enc' = enc /\ pc' = "ctor_error"
    /\ UNCHANGED <<cfg, x, z, i>>

\* Encoder.forward, line 88
ForwardAddPos ==
    /\ pc = "ready"
    /\ \E xs \in Inputs(cfg) :
         /\ x' = xs
         /\ z' = AddPos([ok |-> TRUE, shape |-> xs, hist |-> <<>>], enc)
    /\ i' = 0
    /\ pc' = IF z'.ok THEN "blocks" ELSE "error"
    /\ UNCHANGED <<cfg, enc>>

\* Encoder.forward, lines 89-90: one iteration of the loop
ForwardBlock ==
    /\ pc = "blocks"
    /\ i < enc.num_encoder
    /\ z' = ApplyBlock(z, i, enc)
    /\ i' = i + 1
    /\ pc' = IF z'.ok THEN "blocks" ELSE "error"
    /\ UNCHANGED <<cfg, enc, x>>

\* Encoder.forward, line 91
ForwardReturn ==
    /\ pc = "blocks"
    /\ i >= enc.num_encoder
    /\ pc' = "done"
    /\ UNCHANGED <<cfg, enc, x, z, i>>


----------------------------------------------------------------------------
(* AttentionHead.forward on values.  q and k are the outputs of the Q and K *)
(* projections (any matrices, the weights being free parameters).  exp(s)   *)
(* is kept symbolic: a softmax entry is exp(num) over a sum of exponentials,*)
(* the sum held as the bag of its exponents.  Two such sums are equal       *)
(* exactly when the bags are.  An entry [num, den, sq] stands for           *)
(*     exp(num) / (den * sqrt(sq)).                                         *)

MaxSeqA   == 2          \* sequence lengths 1..MaxSeqA
MaxWidthA == 2          \* widths 1..MaxWidthA
Entries   == {0, 1}     \* entries of q and k

Matrices(rows, cols) == [1..rows -> [1..cols -> Entries]]

RECURSIVE SumSeq(_)
SumSeq(s) == IF s = <<>> THEN 0 ELSE s[1] + SumSeq(Tail(s))

\* k.transpose(1, 0)
TransposeVal(m) == [c \in 1..Len(m[1]) |-> [r \in 1..Len(m) |-> m[r][c]]]

\* torch.matmul(a, b) of two matrices
MatmulVal(a, b) ==
    [r \in 1..Len(a) |-> [c \in 1..Len(b[1]) |->
        SumSeq([e \in 1..Len(b) |-> a[r][e] * b[e][c]])]]

\* exp(s[1]) + ... + exp(s[n]) as the bag of the exponents
ExpSum(s) ==
    [e \in {s[j] : j \in 1..Len(s)} |-> Cardinality({j \in 1..Len(s) : s[j] = e})]

\* F.softmax(m, dim) of a matrix: dim 1 normalises each row, dim 0 each column
SoftmaxVal(m, dim) ==
    [r \in 1..Len(m) |-> [c \in 1..Len(m[1]) |->
        [num |-> m[r][c],
         den |-> IF dim = 1 THEN ExpSum(m[r])
                 ELSE ExpSum([rr \in 1..Len(m) |-> m[rr][c]]),
         sq  |-> 1]]]

\* w / torch.sqrt(n)
DivSqrt(w, n) ==
    [r \in 1..Len(w) |-> [c \in 1..Len(w[1]) |-> [w[r][c] EXCEPT !.sq = @ * n]]]

\* Line 42: F.softmax(q_k_transpose) / sqrt(k.shape[1])
AttentionWeights(scores, kk) == DivSqrt(SoftmaxVal(scores, SoftmaxDim(2)), Len(kk[1]))

AttIdle == q = <<>> /\ k = <<>> /\ qk = <<>> /\ attn = <<>> /\ apc = "idle"

AttInit ==
    /\ \E s \in 1..MaxSeqA, d \in 1..MaxWidthA :
          q \in Matrices(s, d) /\ k \in Matrices(s, d)
    /\ qk = <<>> /\ attn = <<>> /\ apc = "projected"

\* Lines 40-41
AttScores ==
    /\ apc = "projected"
    /\ qk' = MatmulVal(q, TransposeVal(k))
    /\ apc' = "scored"
    /\ UNCHANGED <<q, k, attn>>

\* Line 42
AttSoftmax ==
    /\ apc = "scored"
    /\ attn' = AttentionWeights(qk, k)
    /\ apc' = "weighted"
    /\ UNCHANGED <<q, k, qk>>


----------------------------------------------------------------------------
(* getPositionEncoding(seq_len, d).  sin and cos are kept symbolic: a cell  *)
(* is the constant 0 or 1, or sin or cos of k / n^(e/d) with k >= 1, which  *)
(* is neither 0 nor 1 (k / n^(e/d) is then no multiple of pi).              *)

MaxSeqP   == 4    \* seq_len ranges over 0..MaxSeqP
MaxWidthP == 6    \* d ranges over 0..MaxWidthP

Const(c)     == [fn |-> "const", k |-> 0, e |-> 0, d |-> 0, c |-> c]
Sin(kk, e, d) == IF kk = 0 THEN Const(0) ELSE [fn |-> "sin", k |-> kk, e |-> e, d |-> d, c |-> 0]
Cos(kk, e, d) == IF kk = 0 THEN Const(1) ELSE [fn |-> "cos", k |-> kk, e |-> e, d |-> d, c |-> 0]

\* torch.zeros((rows, cols)), rows and columns counted from 0
Zeros(rows, cols) == [r \in 0..rows - 1 |-> [c \in 0..cols - 1 |-> Const(0)]]

\* int(d/2): the number of iterations of the inner loop
Pairs(d) == d \div 2

\* Lines 7-9: the two cells the iteration (k, i) writes
WritePair(tbl, kk, ii, d) ==
    [tbl EXCEPT ![kk] = [@ EXCEPT ![2 * ii]     = Sin(kk, 2 * ii, d),
                                  ![2 * ii + 1] = Cos(kk, 2 * ii, d)]]

PEIdle ==
    /\ pe_seq = 0 /\ pe_d = 0 /\ P = Zeros(0, 0) /\ pe_k = 0 /\ pe_i = 0
    /\ pe_pc = "idle"

PEInit ==
    /\ pe_seq \in 0..MaxSeqP /\ pe_d \in 0..MaxWidthP
    /\ P = Zeros(pe_seq, pe_d)
    /\ pe_k = 0 /\ pe_i = 0
    /\ pe_pc = "loop"

\* One iteration of the inner loop
PEWrite ==
    /\ pe_pc = "loop" /\ pe_k < pe_seq /\ pe_i < Pairs(pe_d)
    /\ P' = WritePair(P, pe_k, pe_i, pe_d)
    /\ pe_i' = pe_i + 1
    /\ UNCHANGED <<pe_seq, pe_d, pe_k, pe_pc>>

\* The inner loop ends: the next row
PENextRow ==
    /\ pe_pc = "loop" /\ pe_k < pe_seq /\ pe_i >= Pairs(pe_d)
    /\ pe_k' = pe_k + 1
    /\ pe_i' = 0
    /\ UNCHANGED <<pe_seq, pe_d, P, pe_pc>>

\* Line 10
PEReturn ==
    /\ pe_pc = "loop" /\ pe_k >= pe_seq
    /\ pe_pc' = "done"
    /\ UNCHANGED <<pe_seq, pe_d, P, pe_k, pe_i>>


----------------------------------------------------------------------------
(* getMask(seq_len)                                                         *)

MaxSeqM == 6    \* seq_len ranges over 0..MaxSeqM

\* torch.zeros((n, n)) as rows of numbers, rows and columns counted from 1
ZeroMatrix(n) == [r \in 1..n |-> [c \in 1..n |-> 0]]

\* A mask that leaves the diagonal out
MaskCondStrict(ii, jj) == ii < jj

\* Line 16: the condition under which mask[i, j] is set
MaskCond(ii, jj) == ii <= jj

\* Lines 16-17, i and j counted from 0
MaskWrite(m, ii, jj) ==
    IF MaskCond(ii, jj) THEN [m EXCEPT ![ii + 1] = [@ EXCEPT ![jj + 1] = 1]] ELSE m

MaskIdle == m_seq = 0 /\ mask = <<>> /\ m_i = 0 /\ m_j = 0 /\ m_pc = "idle"

MaskInit ==
    /\ m_seq \in 0..MaxSeqM
    /\ mask = ZeroMatrix(m_seq)
    /\ m_i = 0 /\ m_j = 0
    /\ m_pc = "loop"

\* One iteration of the inner loop
MaskStep ==
    /\ m_pc = "loop" /\ m_i < m_seq /\ m_j < m_seq
    /\ mask' = MaskWrite(mask, m_i, m_j)
    /\ m_j' = m_j + 1
    /\ UNCHANGED <<m_seq, m_i, m_pc>>

\* The inner loop ends: the next row
MaskNextRow ==
    /\ m_pc = "loop" /\ m_i < m_seq /\ m_j >= m_seq
    /\ m_i' = m_i + 1
    /\ m_j' = 0
    /\ UNCHANGED <<m_seq, mask, m_pc>>

\* Line 18
MaskReturn ==
    /\ m_pc = "loop" /\ m_i >= m_seq
    /\ m_pc' = "done"
    /\ UNCHANGED <<m_seq, mask, m_i, m_j>>


----------------------------------------------------------------------------
(* evaluate and get_batch.  eval_data has ev_len rows (sequence positions)  *)
(* and ev_bsz columns; the token at row r, column b is named <<r, b>>.      *)
(* The criterion returns the mean loss of a chunk; every position's loss is *)
(* taken to be 1, so that each chunk's mean is 1, total_loss is the sum of  *)
(* the chunks' weights and the per-position mean loss is 1.                 *)

MaxRows == 5    \* len(eval_data) ranges over 1..MaxRows
MaxBsz  == 3    \* batch sizes 1..MaxBsz
MaxSq   == 3    \* sq_len ranges over 1..MaxSq

Source(n, bsz) == [r \in 1..n |-> [b \in 1..bsz |-> <<r - 1, b - 1>>]]

\* s[lo:hi] for 0 <= lo
PySlice(s, lo, hi) == SubSeq(s, Min(lo, Len(s)) + 1, Min(hi, Len(s)))

\* rearrange(m, 'seq batch -> batch seq')
Rearrange(m, bsz) == [b \in 1..bsz |-> [r \in 1..Len(m) |-> m[r][b]]]

RECURSIVE Flatten(_)
\* .reshape(-1) of a matrix: its rows one after the other
Flatten(m) == IF m = <<>> THEN <<>> ELSE m[1] \o Flatten(Tail(m))

\* get_batch(source, i, sq_len)
GetBatch(source, ii, sq_len, bsz) ==
    LET sq == Min(sq_len, Len(source) - 1 - ii)
    IN  [data   |-> PySlice(source, ii, ii + sq),
         target |-> Flatten(Rearrange(PySlice(source, ii + 1, ii + 1 + sq), bsz))]

\* Line 121: seq_len = data.size(0), read after line 120 rearranged data
SeqLenOf(data) == Len(data)

\* Lines 119-124: one iteration of evaluate's loop
EvalChunk(source, ii, sq_len, bsz) ==
    LET batch == GetBatch(source, ii, sq_len, bsz)
        data  == Rearrange(batch.data, bsz)
    IN  [positions |-> Len(batch.data),
         data      |-> data,
         targets   |-> batch.target,
         weight    |-> SeqLenOf(data)]

EvIdle ==
    /\ ev_len = 0 /\ ev_bsz = 0 /\ ev_sq = 0 /\ ev_i = 0 /\ chunks = <<>>
    /\ total_loss = 0 /\ ev_pc = "idle"

EvInit ==
    /\ ev_len \in 1..MaxRows /\ ev_bsz \in 1..MaxBsz /\ ev_sq \in 1..MaxSq
    /\ ev_i = 0 /\ chunks = <<>> /\ total_loss = 0
    /\ ev_pc = "loop"

\* One iteration of the loop over range(0, eval_data.size(0) - 1, sq_len)
EvalStep ==
    /\ ev_pc = "loop" /\ ev_i < ev_len - 1
    /\ LET c == EvalChunk(Source(ev_len, ev_bsz), ev_i, ev_sq, ev_bsz)
       IN  /\ chunks' = Append(chunks, c)
           /\ total_loss' = total_loss + c.weight * 1
    /\ ev_i' = ev_i + ev_sq
    /\ UNCHANGED <<ev_len, ev_bsz, ev_sq, ev_pc>>

\* Line 125: total_loss / (len(eval_data) - 1); a division by zero raises
EvalReturn ==
    /\ ev_pc = "loop" /\ ev_i >= ev_len - 1
    /\ ev_pc' = IF ev_len - 1 = 0 THEN "error" ELSE "done"
    /\ UNCHANGED <<ev_len, ev_bsz, ev_sq, ev_i, chunks, total_loss>>


----------------------------------------------------------------------------
(* Specifications: one per component, the others standing idle.             *)

Init == EncInit /\ AttIdle /\ PEIdle /\ MaskIdle /\ EvIdle
Next ==
    \/ Construct     /\ UNCHANGED <<attVars, peVars, maskVars, evVars>>
    \/ ForwardAddPos /\ UNCHANGED <<attVars, peVars, maskVars, evVars>>
    \/ ForwardBlock  /\ UNCHANGED <<attVars, peVars, maskVars, evVars>>
    \/ ForwardReturn /\ UNCHANGED <<attVars, peVars, maskVars, evVars>>
Spec == Init /\ [][Next]_vars

InitAttention == EncIdle /\ AttInit /\ PEIdle /\ MaskIdle /\ EvIdle
NextAttention ==
    \/ AttScores  /\ UNCHANGED <<encVars, peVars, maskVars, evVars>>
    \/ AttSoftmax /\ UNCHANGED <<encVars, peVars, maskVars, evVars>>
SpecAttention == InitAttention /\ [][NextAttention]_vars

InitPE == EncIdle /\ AttIdle /\ PEInit /\ MaskIdle /\ EvIdle
NextPE ==
    \/ PEWrite   /\ UNCHANGED <<encVars, attVars, maskVars, evVars>>
    \/ PENextRow /\ UNCHANGED <<encVars, attVars, maskVars, evVars>>
    \/ PEReturn  /\ UNCHANGED <<encVars, attVars, maskVars, evVars>>
SpecPE == InitPE /\ [][NextPE]_vars

InitMask == EncIdle /\ AttIdle /\ PEIdle /\ MaskInit /\ EvIdle
NextMask ==
    \/ MaskStep    /\ UNCHANGED <<encVars, attVars, peVars, evVars>>
    \/ MaskNextRow /\ UNCHANGED <<encVars, attVars, peVars, evVars>>
    \/ MaskReturn  /\ UNCHANGED <<encVars, attVars, peVars, evVars>>
SpecMask == InitMask /\ [][NextMask]_vars

InitEval == EncIdle /\ AttIdle /\ PEIdle /\ MaskIdle /\ EvInit
NextEval ==
    \/ EvalStep   /\ UNCHANGED <<encVars, attVars, peVars, maskVars>>
    \/ EvalReturn /\ UNCHANGED <<encVars, attVars, peVars, maskVars>>
SpecEval == InitEval /\ [][NextEval]_vars

----------------------------------------------------------------------------
(* The claims                                                               *)

\* A configuration the specification calls valid
ValidCfg(c) ==
    /\ c.V >= 1 /\ c.num_heads >= 1 /\ c.num_encoder >= 1
    /\ c.max_len >= 1 /\ c.num_layers >= 2

Called == pc \in {"blocks", "error", "done"}

\* The sequence length of an input shape [seq_len, d] or [batch, seq_len, d]
SeqLen(s) == s[Len(s) - 1]

\* C1: an unbatched input [seq_len, d] with 1 <= seq_len <= L is accepted,
\* only the first seq_len rows of the table are added to it (Z0 has the
\* input's shape) and the output has the input's shape.
C1_UnbatchedShapePreserved ==
    (Called /\ ValidCfg(cfg) /\ Len(x) = 2 /\ x[1] >= 1 /\ x[1] <= cfg.max_len)
        => (pc # "error" /\ z.ok /\ z.shape = x)

\* C2: a batched input [batch, seq_len, d] goes through forward without a
\* shape error, every stage keeping the shape, so that the output has the
\* input's shape.  Stated for the inputs whose seq_len is the table's row
\* count (as in the scenario [2, 8, 16]), where line 88 adds the table row
\* by row.
C2_BatchedShapePreserved ==
    (Called /\ ValidCfg(cfg) /\ Len(x) = 3 /\ x[1] >= 1 /\ x[2] = cfg.max_len)
        => (pc # "error" /\ z.ok /\ z.shape = x)

\* A row of weights exp(num)/(den*sqrt(sq)) that share their denominator
\* sums to 1 exactly when the denominator is the sum of its numerators and
\* nothing is divided off afterwards.
RowSumIsOne(row) ==
    \A c \in 1..Len(row) :
        row[c].sq = 1 /\ row[c].den = ExpSum([e \in 1..Len(row) |-> row[e].num])

\* C3: the weights AttentionHead.forward multiplies into V form a
\* [seq_len, seq_len] matrix each of whose rows sums to 1.
C3_AttentionRowStochastic ==
    apc = "weighted"
        => /\ Len(attn) = Len(q)
           /\ \A r \in 1..Len(attn) : Len(attn[r]) = Len(q) /\ RowSumIsOne(attn[r])

\* C4: an input whose sequence length exceeds L is refused with an error at
\* the positional table, whatever L >= 1 is; no result is ever computed from
\* a truncated, wrapped or broadcast table.
C4_TooLongRejected ==
    (Called /\ ValidCfg(cfg) /\ Len(x) \in {2, 3} /\ SeqLen(x) > cfg.max_len)
        => (pc = "error" /\ z.hist = <<PosOp>>)

\* C5: a construction with num_layers < 2 or a non-positive width, head
\* count or max_len fails; no such object comes to exist.
InvalidCfg(c) == c.num_layers < 2 \/ c.V <= 0 \/ c.num_heads <= 0 \/ c.max_len <= 0

C5_InvalidConfigFailsAtConstruction ==
    (pc # "new" /\ InvalidCfg(cfg)) => pc = "ctor_error"

\* C6: a forward call on a zero-length sequence [0, d] never returns an
\* output.
C6_ZeroLengthRejected ==
    (Called /\ ValidCfg(cfg) /\ Len(x) = 2 /\ x[1] = 0) => pc # "done"

\* The operations of a forward call through n blocks
Expected(n) == <<PosOp>> \o [j \in 1..n |-> BlockOp(j - 1)]

IsPrefix(s, t) == Len(s) <= Len(t) /\ SubSeq(t, 1, Len(s)) = s

\* C7: in a forward call the positional encoding is added once, first, then
\* the blocks 0..N-1 are applied once each in index order, each to the
\* previous one's output; the call returns only after block N-1, and what
\* it returns is that block's output.
C7_PositionalOnceThenBlocksInOrder ==
    Called =>
        /\ IsPrefix(z.hist, Expected(Max(enc.num_encoder, 0)))
        /\ Len(z.hist) = i + 1
        /\ (pc = "done" => z.ok /\ z.hist = Expected(Max(enc.num_encoder, 0)))

C7_Witness ==
    /\ pc = "done" /\ enc.num_encoder = 2 /\ Len(x) = 2 /\ x[1] >= 2
    /\ z.hist = <<PosOp, BlockOp(0), BlockOp(1)>>

\* C8: getPositionEncoding(seq_len, d) fills every cell (k, c), c < d, with
\* sin(k / n^(c/d)) for an even column c and cos(k / n^((c-1)/d)) for an odd
\* one, odd widths included.
C8_TableMatchesClosedForm ==
    (pe_pc = "done" /\ pe_seq >= 1 /\ pe_d >= 1)
        => \A kk \in 0..pe_seq - 1 : \A c \in 0..pe_d - 1 :
              P[kk][c] = IF c % 2 = 0 THEN Sin(kk, c, pe_d) ELSE Cos(kk, c - 1, pe_d)

\* C9: getMask(seq_len) returns a seq_len x seq_len matrix whose entry
\* (i, j) is 1 exactly when i <= j and 0 otherwise; getMask(3) is
\* [[1,1,1],[0,1,1],[0,0,1]].
C9_MaskUpperTriangular ==
    m_pc = "done"
        => /\ Len(mask) = m_seq
           /\ \A r \in 1..m_seq :
                /\ Len(mask[r]) = m_seq
                /\ \A c \in 1..m_seq : mask[r][c] = IF r <= c THEN 1 ELSE 0
           /\ (m_seq = 3 => mask = <<<<1, 1, 1>>, <<0, 1, 1>>, <<0, 0, 1>>>>)

C9_Witness ==
    m_pc = "done" /\ m_seq = 3 /\ mask = <<<<1, 1, 1>>, <<0, 1, 1>>, <<0, 0, 1>>>>

\* The token that follows tok in its column
NextToken(tok) == <<tok[1] + 1, tok[2]>>

\* A chunk whose target is its data shifted by one position, in the order
\* in which the model's flattened output lists the data
Aligned(c) ==
    /\ Len(c.targets) = Len(c.data) * c.positions
    /\ \A b \in 1..Len(c.data) : \A s \in 1..c.positions :
          c.targets[(b - 1) * c.positions + s] = NextToken(c.data[b][s])

\* C10: evaluate returns the per-position mean loss: every chunk has
\* between 1 and sq_len positions, data and target aligned, its mean loss
\* is weighted by its number of positions, and the weights sum to
\* len(eval_data) - 1, the divisor.
C10_EvaluateWeightsByPositions ==
    ev_pc = "done"
        => /\ \A n \in 1..Len(chunks) :
                /\ chunks[n].positions >= 1 /\ chunks[n].positions <= ev_sq
                /\ Aligned(chunks[n])
                /\ chunks[n].weight = chunks[n].positions
           /\ total_loss = ev_len - 1

====
